---- MODULE Spec2Model ----
(***************************************************************************)
(* Moonshine speech-to-text: the Transcriber facade, the OnnxModel         *)
(* encode-once / decode-repeatedly loop and its key-value cache.           *)
(*                                                                         *)
(* The inference engine (ONNX Runtime) and the tokenizer are external.     *)
(* An engine run either throws or returns the declared number of output    *)
(* tensors, with shapes and logits the engine chooses.  A tensor is a      *)
(* record [shape, data, buf]: its shape, its element values where the code *)
(* reads them (logits), and the identity of the buffer holding its data.   *)
(***************************************************************************)
EXTENDS Integers, Sequences, FiniteSets, TLC

VARIABLES
    phase,                \* position of the program
    type_str,             \* argument of ModelType::from_string
    model_type,           \* the caller's ModelType: "Base", "Tiny", "Other" (a
                          \* value outside the enumerators) or "nullopt"
    tokenizer_path,       \* constructor argument: what the path refers to
    encoder_path,         \* constructor argument: what the path refers to
    decoder_path,         \* constructor argument: what the path refers to
    construct_error,      \* message of the exception the constructor threw
    tokenizer,            \* Transcriber::tokenizer is loaded
    model,                \* Transcriber::model is built
    num_layers,           \* OnnxModel::num_layers
    num_kv_heads,         \* OnnxModel::num_kv_heads
    head_dim,             \* OnnxModel::head_dim
    encoder_output_names, \* declared encoder outputs
    decoder_input_names,  \* declared decoder inputs, in declaration order
    decoder_output_names, \* declared decoder outputs
    calls,                \* transcribe calls made on this Transcriber
    audio_len,            \* audio_data.size() of the current call
    max_len,              \* run(): max_len
    max_token_count,      \* decode(): max_token_count
    i,                    \* decode(): loop index
    use_cache_branch,     \* decode(): flag of the latest iteration
    cur_tokens,           \* decode(): cur_tokens
    result_tokens,        \* decode(): result_tokens
    past_key_values,      \* decode(): past_key_values
    last_hidden_state,    \* decode(): last_hidden_state
    decoder_inputs,       \* decode_next_token(): tensors of the latest run
    logits,               \* output.at(0) of the latest decoder run
    tokens,               \* transcribe(): tokens, the vector run() returned
    text,                 \* string transcribe returned
    encoder_runs,         \* encoder.Run calls of the current call
    decoder_runs,         \* decoder.Run calls of the current call
    tokenizer_calls,      \* tokenizer->Decode calls of the current call
    tokenizer_arg,        \* argument of the latest tokenizer->Decode
    failure,              \* exception raised inside the current call
    prev_tokens,          \* history: the tokens the previous call returned
    memo,                 \* history: the engine runs made and their answers
    encoder_inputs,       \* encode(): in_tensor of the encoder run of this call
    selected,             \* history: next_token of each decoder run of this call
    update_flags,         \* history: flag of each update_kv_cache of this call
    present_kv            \* new_values of update_kv_cache called on its own

vars == <<phase, type_str, model_type, tokenizer_path, encoder_path, decoder_path,
          construct_error, tokenizer, model,
          num_layers, num_kv_heads, head_dim, encoder_output_names,
          decoder_input_names, decoder_output_names, calls, audio_len, max_len,
          max_token_count, i, use_cache_branch, cur_tokens, result_tokens,
          past_key_values, last_hidden_state, decoder_inputs, logits, tokens, text,
          encoder_runs, decoder_runs, tokenizer_calls, tokenizer_arg, failure,
          prev_tokens, memo, encoder_inputs, selected, update_flags, present_kv>>

(***************************************************************************)
(* Program constants                                                       *)
(***************************************************************************)
start_token == 1
end_token == 2
sample_rate == 16000
max_tokens_per_second == 6
min_token_count == 1

(***************************************************************************)
(* Bounds of the model                                                     *)
(***************************************************************************)
\* token ids are 0 .. VocabSize - 1 (the V of a [1,1,V] logits tensor)
VocabSize == 3
\* the values a logit takes
LogitValues == {0, 1}
\* the token budget is compared with the rounding rule for 0 .. DenseSamples
DenseSamples == 16000
\* transcribe calls made on one Transcriber
MaxCalls == 2

Max(a, b) == IF a >= b THEN a ELSE b
Min(a, b) == IF a <= b THEN a ELSE b

(***************************************************************************)
(* ModelType::from_string                                                  *)
(***************************************************************************)
UpperCase == <<"A","B","C","D","E","F","G","H","I","J","K","L","M",
               "N","O","P","Q","R","S","T","U","V","W","X","Y","Z">>
LowerCase == <<"a","b","c","d","e","f","g","h","i","j","k","l","m",
               "n","o","p","q","r","s","t","u","v","w","x","y","z">>

\* ::tolower on one character (C locale)
tolower(c) ==
    IF \E k \in 1..Len(UpperCase) : UpperCase[k] = c
    THEN LowerCase[CHOOSE k \in 1..Len(UpperCase) : UpperCase[k] = c]
    ELSE c

\* std::transform(str.begin(), str.end(), str.begin(), ::tolower)
str_lower(str) == [k \in 1..Len(str) |-> tolower(str[k])]

from_string_nocase(str) ==
    IF str = <<"b","a","s","e">> THEN "Base"
    ELSE IF str = <<"t","i","n","y">> THEN "Tiny"
    ELSE "nullopt"

from_string(str) ==
    IF str_lower(str) = <<"b","a","s","e">> THEN "Base"
    ELSE IF str_lower(str) = <<"t","i","n","y">> THEN "Tiny"
    ELSE "nullopt"

\* ::toupper on one character (C locale)
toupper(c) ==
    IF \E k \in 1..Len(LowerCase) : LowerCase[k] = c
    THEN UpperCase[CHOOSE k \in 1..Len(LowerCase) : LowerCase[k] = c]
    ELSE c

\* every way of writing a four-letter lower-case word with each letter in
\* either case
Casings(w) ==
    {<<a, b, c, d>> : a \in {w[1], toupper(w[1])}, b \in {w[2], toupper(w[2])},
                      c \in {w[3], toupper(w[3])}, d \in {w[4], toupper(w[4])}}

TypeStrings ==
    Casings(<<"b","a","s","e">>) \cup Casings(<<"t","i","n","y">>) \cup
    { <<>>, <<"b","a","s">>, <<"b","a","s","e","s">>, <<"B","A","S","E"," ">>,
      <<"t","i","n","i">>, <<"T","1","N","Y">>, <<"b","a","s","e","t","i","n","y">>,
      <<"m","e","d","i","u","m">>, <<"M","E","D","I","U","M">>, <<"y","n","i","t">> }

(***************************************************************************)
(* OnnxModel::Base, OnnxModel::Tiny                                        *)
(***************************************************************************)
Base == [num_layers |-> 8, num_kv_heads |-> 8, head_dim |-> 52]
Tiny == [num_layers |-> 6, num_kv_heads |-> 8, head_dim |-> 36]

\* the values a ModelType can hold: the two enumerators, and "Other" for any
\* other value of the underlying uint8_t, which the public constructor accepts
ModelTypes == {"Base", "Tiny", "Other"}

\* the switch of the Transcriber constructor: the model it creates, none when
\* no case matches
ModelConfig(mt) ==
    IF mt = "Base" THEN <<Base>>
    ELSE IF mt = "Tiny" THEN <<Tiny>>
    ELSE <<>>

(***************************************************************************)
(* Construction: path checks                                               *)
(***************************************************************************)
\* what a path refers to; "unreadable" is a path whose status cannot be
\* read (a name too long, a symbolic link loop, a directory without search
\* permission)
PathKinds == {"missing", "directory", "file", "unreadable"}

\* std::filesystem::exists: "true", "false", or a filesystem_error thrown
exists(p) ==
    IF p = "unreadable" THEN "filesystem_error"
    ELSE IF p = "missing" THEN "false"
    ELSE "true"

\* std::filesystem::is_regular_file: "true", "false", or a filesystem_error
\* thrown
is_regular_file(p) ==
    IF p = "unreadable" THEN "filesystem_error"
    ELSE IF p = "file" THEN "true"
    ELSE "false"

\* Transcriber::Transcriber, the two tokenizer path tests
TokenizerPathCheck(tp) ==
    IF exists(tp) = "filesystem_error" THEN "filesystem_error"
    ELSE IF exists(tp) = "false" THEN "File not found"
    ELSE IF is_regular_file(tp) = "filesystem_error" THEN "filesystem_error"
    ELSE IF is_regular_file(tp) = "false" THEN "Not a regular file"
    ELSE "ok"

\* OnnxModel::OnnxModel, the two model path tests
ModelPathCheck(ep, dp) ==
    IF is_regular_file(ep) = "filesystem_error" THEN "filesystem_error"
    ELSE IF is_regular_file(ep) = "false" THEN "Encoder path is not a regular file"
    ELSE IF is_regular_file(dp) = "filesystem_error" THEN "filesystem_error"
    ELSE IF is_regular_file(dp) = "false" THEN "Decoder path is not a regular file"
    ELSE "ok"

(***************************************************************************)
(* Model graphs a session may load: declared names                         *)
(***************************************************************************)
past_key_prefix == <<"p","a","s","t","_","k","e","y","_","v","a","l","u","e","s">>
InputIds == <<"i","n","p","u","t","_","i","d","s">>
EncoderHiddenStates == <<"e","n","c","o","d","e","r","_","h","i","d","d","e","n",
                         "_","s","t","a","t","e","s">>
UseCacheBranch == <<"u","s","e","_","c","a","c","h","e","_","b","r","a","n","c","h">>
PastKey(suffix) == past_key_prefix \o suffix
Logits == <<"l","o","g","i","t","s">>
Present(suffix) == <<"p","r","e","s","e","n","t">> \o suffix
LastHiddenState == <<"l","a","s","t","_","h","i","d","d","e","n","_","s","t","a","t","e">>

\* key_str.find(past_key_prefix) != std::string::npos
find(key_str, prefix) ==
    \E k \in 0..(Len(key_str) - Len(prefix)) :
        SubSeq(key_str, k + 1, k + Len(prefix)) = prefix

ModelFiles ==
    { \* one decoder layer of the merged Moonshine decoder: self- and
      \* cross-attention key and value
      [enc_out |-> <<LastHiddenState>>,
       dec_in  |-> <<InputIds, EncoderHiddenStates,
                     PastKey(<<".","0",".","d",".","k">>), PastKey(<<".","0",".","d",".","v">>),
                     UseCacheBranch>>,
       dec_out |-> <<Logits, Present(<<".","0",".","d",".","k">>),
                     Present(<<".","0",".","d",".","v">>)>>],
      \* fewer cache outputs than cache inputs, flag declared first
      [enc_out |-> <<LastHiddenState>>,
       dec_in  |-> <<UseCacheBranch, InputIds, EncoderHiddenStates,
                     PastKey(<<".","0">>), <<"x">> \o PastKey(<<".","1">>)>>,
       dec_out |-> <<Logits, Present(<<".","0">>)>>],
      \* no cache input, one cache output
      [enc_out |-> <<LastHiddenState>>,
       dec_in  |-> <<InputIds, EncoderHiddenStates, UseCacheBranch>>,
       dec_out |-> <<Logits, Present(<<".","0">>)>>],
      \* a decoder that declares no flag input and no output: the run is
      \* handed four tensors over three names
      [enc_out |-> <<LastHiddenState>>,
       dec_in  |-> <<InputIds, EncoderHiddenStates, PastKey(<<".","0">>)>>,
       dec_out |-> <<>>],
      \* a decoder that declares no output
      [enc_out |-> <<LastHiddenState>>,
       dec_in  |-> <<InputIds, EncoderHiddenStates, UseCacheBranch>>,
       dec_out |-> <<>>],
      \* an encoder that declares no output
      [enc_out |-> <<>>,
       dec_in  |-> <<InputIds, EncoderHiddenStates, UseCacheBranch>>,
       dec_out |-> <<Logits>>] }

(***************************************************************************)
(* Tensors                                                                 *)
(***************************************************************************)
Tensor(shape, data, buf) == [shape |-> shape, data |-> data, buf |-> buf]

NullBuf == <<"nullptr", 0, 0>>
EncoderBuf(k) == <<"encoder.Run", 0, k>>
DecoderBuf(step, k) == <<"decoder.Run", step, k>>
CurTokensBuf == <<"cur_tokens", 0, 0>>
FlagBuf == <<"dec_use_cache_branch_data", 0, 0>>

\* clone_tensor: CreateTensor over the data pointer of the given tensor
clone_tensor(tensor) == Tensor(tensor.shape, tensor.data, tensor.buf)

(***************************************************************************)
(* What the engine may answer                                              *)
(***************************************************************************)
EncoderOutputs(names) ==
    { [k \in 1..Len(names) |-> Tensor(<<1, 1, 1>>, <<>>, EncoderBuf(k))] }

EncoderRunOutcomes(names) ==
    { [throws |-> TRUE, output |-> <<>>] } \cup
    { [throws |-> FALSE, output |-> o] : o \in EncoderOutputs(names) }

ZeroLogits == [k \in 1..VocabSize |-> 0]

LogitsTensors(step) ==
    { Tensor(<<1, 1, VocabSize>>, d, DecoderBuf(step, 1)) :
        d \in [1..VocabSize -> LogitValues] } \cup
    { Tensor(s, ZeroLogits, DecoderBuf(step, 1)) :
        s \in { <<1, VocabSize>>, <<2, 1, VocabSize>>, <<1, 2, VocabSize>>,
                <<0, 1, VocabSize>>, <<1, 1, 1, VocabSize>> } }

\* leading dimension and third axis of a cache output
PresentDims == { <<1, 1>>, <<1, 2>>, <<0, 1>> }

PresentSeqs(n, step, heads, dim) ==
    { [k \in 1..n |-> Tensor(<<d[k][1], heads, d[k][2], dim>>, <<>>,
                             DecoderBuf(step, k + 1))] :
        d \in [1..n -> PresentDims] }

DecoderOutputs(names, step, heads, dim) ==
    IF Len(names) = 0 THEN { <<>> }
    ELSE { <<lg>> \o pres : lg \in LogitsTensors(step),
                            pres \in PresentSeqs(Len(names) - 1, step, heads, dim) }

\* the signals that end the process when a run reads past the end of the
\* vector of declared input names
Signals == { "SIGSEGV", "SIGBUS" }

\* decoder.Run is given decoder_input_names.data() with decoder_inputs.size()
\* as the count.  The run throws or returns one tensor per declared output;
\* with more tensors than declared names it reads a name past the end of the
\* vector, and what that slot holds decides: the process dies on a signal,
\* or the run throws on the name, or the engine never reads the slot and
\* the run ends as any other
DecoderRunOutcomes(in_names, inputs, names, step, heads, dim) ==
    { [signal |-> "none", throws |-> TRUE, output |-> <<>>] } \cup
    { [signal |-> "none", throws |-> FALSE, output |-> o] :
          o \in DecoderOutputs(names, step, heads, dim) } \cup
    (IF Len(inputs) > Len(in_names)
     THEN { [signal |-> sg, throws |-> FALSE, output |-> <<>>] : sg \in Signals }
     ELSE {})

(***************************************************************************)
(* OnnxModel::run: the token budget                                        *)
(***************************************************************************)
\* std::round of the non-negative rational num / den: halves go up
round(num, den) == (2 * num + den) \div (2 * den)

trunc(num, den) == num \div den

token_budget_truncated(n) == trunc(n * max_tokens_per_second, sample_rate)

\* the product kept in 16 bits
token_budget_u16(n) == round((n * max_tokens_per_second) % 65536, sample_rate)

\* run(): max_len = std::round((size / sample_rate) * max_tokens_per_second)
token_budget(n) == round(n * max_tokens_per_second, sample_rate)

\* decode(): max_token_count = std::max(max_len, min_token_count)
MaxTokenCount(len) == Max(len, min_token_count)

(***************************************************************************)
(* OnnxModel::initialize_past_key_values                                   *)
(***************************************************************************)
RECURSIVE initialize_scan(_, _, _, _)
initialize_scan(names, k, heads, dim) ==
    IF k > Len(names) THEN <<>>
    ELSE (IF find(names[k], past_key_prefix)
          THEN << Tensor(<<0, heads, 1, dim>>, <<>>, NullBuf) >>
          ELSE <<>>) \o initialize_scan(names, k + 1, heads, dim)

\* the leading dimension set to 1
initialize_past_key_values_stale(names, heads, dim) ==
    [k \in 1..Len(initialize_scan(names, 1, heads, dim)) |->
        Tensor(<<1, heads, 1, dim>>, <<>>, NullBuf)]

\* one entry per name that starts with the prefix
initialize_past_key_values_starts_with(names, heads, dim) ==
    [k \in 1..Cardinality({n \in 1..Len(names) :
                              /\ Len(names[n]) >= Len(past_key_prefix)
                              /\ SubSeq(names[n], 1, Len(past_key_prefix)) = past_key_prefix})
        |-> Tensor(<<0, heads, 1, dim>>, <<>>, NullBuf)]

\* one empty tensor per declared decoder input whose name holds the prefix,
\* in declaration order; the member num_layers is not read
initialize_past_key_values(names, heads, dim) ==
    initialize_scan(names, 1, heads, dim)

(***************************************************************************)
(* OnnxModel::update_kv_cache                                              *)
(***************************************************************************)
update_kv_cache_truncating(cache, new_values, flag) ==
    [k \in 1..Min(Len(cache), Len(new_values)) |->
        IF cache[k].shape[1] = 0 \/ new_values[k].shape[3] > 1 \/ ~flag
        THEN new_values[k]
        ELSE cache[k]]

\* the flag is not looked at
update_kv_cache_unflagged(cache, new_values, flag) ==
    [k \in 1..Len(cache) |->
        IF k <= Len(new_values) /\ (cache[k].shape[1] = 0 \/ new_values[k].shape[3] > 1)
        THEN new_values[k]
        ELSE cache[k]]

\* new values without a cache entry are appended
update_kv_cache_extending(cache, new_values, flag) ==
    [k \in 1..Max(Len(cache), Len(new_values)) |->
        IF k > Len(cache) THEN new_values[k]
        ELSE IF k > Len(new_values) THEN cache[k]
        ELSE IF cache[k].shape[1] = 0 \/ new_values[k].shape[3] > 1 \/ ~flag
        THEN new_values[k]
        ELSE cache[k]]

\* the paired iteration stops at the shorter of the two vectors; the cache
\* keeps its length
update_kv_cache(cache, new_values, flag) ==
    [k \in 1..Len(cache) |->
        IF k <= Len(new_values)
        THEN LET present_kv_shape == new_values[k].shape
                 past_kv_shape == cache[k].shape
                 past_kv_empty == past_kv_shape[1] = 0
                 present_kv_tok_proc == present_kv_shape[3]
                 is_decoder_kv == present_kv_tok_proc > 1
             IN  IF past_kv_empty \/ is_decoder_kv \/ ~flag
                 THEN new_values[k]
                 ELSE cache[k]
        ELSE cache[k]]

(***************************************************************************)
(* OnnxModel::get_next_token                                               *)
(***************************************************************************)
\* the number of dimensions alone
UnexpectedLogitsRank(shape) == Len(shape) # 3

\* the shape test that guards the throw
UnexpectedLogitsShape(shape) ==
    Len(shape) # 3 \/ shape[1] # 1 \/ shape[2] # 1

\* std::max_element: the first position holding the largest value
RECURSIVE max_element_scan(_, _, _)
max_element_scan(v, k, largest) ==
    IF k > Len(v) THEN largest
    ELSE max_element_scan(v, k + 1, IF v[largest] < v[k] THEN k ELSE largest)

\* the last position holding the largest value
get_next_token_last(tensor) ==
    LET logit_vec == SubSeq(tensor.data, 1, tensor.shape[3])
    IN  IF Len(logit_vec) = 0 THEN 0
        ELSE (CHOOSE k \in 1..Len(logit_vec) :
                 /\ \A j \in 1..Len(logit_vec) : logit_vec[j] <= logit_vec[k]
                 /\ \A j \in (k + 1)..Len(logit_vec) : logit_vec[j] < logit_vec[k]) - 1

\* std::distance(begin, max_element(begin, end)) over the first shape[2] values
get_next_token(tensor) ==
    LET vocab_size == tensor.shape[3]
        logit_vec == SubSeq(tensor.data, 1, vocab_size)
    IN  IF Len(logit_vec) = 0 THEN 0
        ELSE max_element_scan(logit_vec, 2, 1) - 1

(***************************************************************************)
(* OnnxModel::encode: the tensor handed to encoder.Run                     *)
(***************************************************************************)
AudioBuf == <<"audio_data", 0, 0>>

\* the first quarter of a second only
encode_input_chunk(n) == Tensor(<<1, Min(n, 4000)>>, <<>>, AudioBuf)

\* in_tensor: shape {1, audio_data.size()} over audio_data.data()
encode_input(n) == Tensor(<<1, n>>, <<>>, AudioBuf)

(***************************************************************************)
(* OnnxModel::decode_next_token: the tensors handed to decoder.Run         *)
(***************************************************************************)
\* the start token ahead of the tokens given
decode_next_token_inputs_history(input_ids, hidden, cache, flag) ==
    << Tensor(<<1, Len(input_ids) + 1>>, <<start_token>> \o input_ids, CurTokensBuf) >>
    \o << clone_tensor(hidden) >>
    \o [k \in 1..Len(cache) |-> clone_tensor(cache[k])]
    \o << Tensor(<<1>>, <<flag>>, FlagBuf) >>

decode_next_token_inputs(input_ids, hidden, cache, flag) ==
    << Tensor(<<1, Len(input_ids)>>, input_ids, CurTokensBuf) >>
    \o << clone_tensor(hidden) >>
    \o [k \in 1..Len(cache) |-> clone_tensor(cache[k])]
    \o << Tensor(<<1>>, <<flag>>, FlagBuf) >>

(***************************************************************************)
(* OnnxModel::decode: the loop                                             *)
(***************************************************************************)
LoopCondInclusive(idx, count) == idx <= count

\* for (size_t i = 0; i < max_token_count; i++)
LoopCond(idx, count) == idx < count

\* the loop stops on token 0
IsEndTokenZero(tok) == tok = 0

\* if (next_token == end_token) break;
IsEndToken(tok) == tok = end_token

CacheBranchAlways(idx) == TRUE

\* bool use_cache_branch = i > 0;
CacheBranch(idx) == idx > 0

push_front(v, tok) == <<tok>> \o v

\* result_tokens.push_back(next_token)
push_back(v, tok) == Append(v, tok)

(***************************************************************************)
(* tokenizers::Tokenizer::Decode (external): token 0 is a special token    *)
(* that yields no text, every other token yields one letter                *)
(***************************************************************************)
RECURSIVE TokenizerDecode(_)
TokenizerDecode(ids) ==
    IF Len(ids) = 0 THEN <<>>
    ELSE (IF Head(ids) = 0 THEN <<>> ELSE << LowerCase[Head(ids)] >>)
         \o TokenizerDecode(Tail(ids))

SkipEmptyCheck(ids) == FALSE

\* transcribe(): if (tokens.empty()) return "";
TokensEmpty(ids) == Len(ids) = 0

(***************************************************************************)
(* The state machine                                                       *)
(***************************************************************************)
\* audio buffers of the transcribe calls: empty, just past the first
\* rounding point, on a rounding tie (1.5 tokens), and half a second
SampleCounts == { 0, 1334, 4000, 8000 }

NoTensor == Tensor(<<>>, <<>>, NullBuf)

Init ==
    /\ phase = "Start"
    /\ type_str = <<>>
    /\ model_type = "nullopt"
    /\ tokenizer_path = "missing"
    /\ encoder_path = "missing"
    /\ decoder_path = "missing"
    /\ construct_error = "none"
    /\ calls = 0
    /\ tokenizer = FALSE
    /\ model = FALSE
    /\ num_layers = 0
    /\ num_kv_heads = 0
    /\ head_dim = 0
    /\ encoder_output_names = <<>>
    /\ decoder_input_names = <<>>
    /\ decoder_output_names = <<>>
    /\ audio_len = 0
    /\ max_len = 0
    /\ max_token_count = 0
    /\ i = 0
    /\ use_cache_branch = FALSE
    /\ cur_tokens = <<>>
    /\ result_tokens = <<>>
    /\ past_key_values = <<>>
    /\ last_hidden_state = NoTensor
    /\ decoder_inputs = <<>>
    /\ logits = NoTensor
    /\ tokens = <<>>
    /\ text = <<>>
    /\ encoder_runs = 0
    /\ decoder_runs = 0
    /\ tokenizer_calls = 0
    /\ tokenizer_arg = <<>>
    /\ failure = "none"
    /\ prev_tokens = <<>>
    /\ memo = <<>>
    /\ encoder_inputs = <<>>
    /\ selected = <<>>
    /\ update_flags = <<>>
    /\ present_kv = <<>>

modelVars == <<num_layers, num_kv_heads, head_dim, encoder_output_names,
               decoder_input_names, decoder_output_names>>
pathVars == <<tokenizer_path, encoder_path, decoder_path>>
objectVars == <<model_type, pathVars, construct_error, tokenizer, model, calls>>
decodeVars == <<max_token_count, i, use_cache_branch, cur_tokens, result_tokens,
                past_key_values, last_hidden_state, decoder_inputs, logits>>
callVars == <<tokens, text, tokenizer_calls, tokenizer_arg>>
histVars == <<prev_tokens, memo>>
runVars == <<encoder_inputs, selected, update_flags>>

\* the caller turns a model name into a ModelType
FromString(str) ==
    /\ phase = "Start"
    /\ type_str' = str
    /\ model_type' = from_string(str)
    /\ phase' = "Selected"
    /\ UNCHANGED <<pathVars, construct_error, tokenizer, model, calls, modelVars,
                   audio_len, max_len, decodeVars, callVars, encoder_runs,
                   decoder_runs, failure, histVars, runVars, present_kv>>

\* the caller builds a ModelType from a value of the enumeration type
FromType(t) ==
    /\ phase = "Start"
    /\ model_type' = t
    /\ phase' = "Typed"
    /\ UNCHANGED <<type_str, pathVars, construct_error, tokenizer, model, calls,
                   modelVars, audio_len, max_len, decodeVars, callVars,
                   encoder_runs, decoder_runs, failure, histVars, runVars,
                   present_kv>>

\* the exception that ends the constructor, or "ok"; load is "throws" when
\* an Ort::Session constructor throws, else the graphs the sessions hold
\* the model paths are tested and the sessions created only inside a case of
\* the switch
ConstructError(mt, tp, ep, dp, load) ==
    IF TokenizerPathCheck(tp) # "ok"
    THEN TokenizerPathCheck(tp)
    ELSE IF ModelConfig(mt) = <<>> THEN "ok"
    ELSE IF ModelPathCheck(ep, dp) # "ok"
    THEN ModelPathCheck(ep, dp)
    ELSE IF load.throws THEN "Ort::Exception"
    ELSE "ok"

Loads == { [throws |-> TRUE, file |-> f] : f \in {CHOOSE g \in ModelFiles : TRUE} } \cup
         { [throws |-> FALSE, file |-> f] : f \in ModelFiles }

\* Transcriber::Transcriber
Construct(tp, ep, dp, load) ==
    /\ phase \in {"Selected", "Typed"}
    /\ model_type # "nullopt"
    /\ tokenizer_path' = tp
    /\ encoder_path' = ep
    /\ decoder_path' = dp
    /\ LET err == ConstructError(model_type, tp, ep, dp, load)
           cfg == ModelConfig(model_type)
       IN  IF err # "ok"
           THEN /\ phase' = "ConstructFailed"
                /\ construct_error' = err
                /\ tokenizer' = FALSE
                /\ model' = FALSE
                /\ UNCHANGED <<type_str, modelVars>>
           ELSE IF cfg = <<>>
           THEN /\ phase' = "Ready"
                /\ construct_error' = "none"
                /\ tokenizer' = TRUE
                /\ model' = FALSE
                /\ type_str' = <<>>
                /\ UNCHANGED modelVars
           ELSE /\ phase' = "Ready"
                /\ construct_error' = "none"
                /\ tokenizer' = TRUE
                /\ model' = TRUE
                /\ type_str' = <<>>
                /\ num_layers' = cfg[1].num_layers
                /\ num_kv_heads' = cfg[1].num_kv_heads
                /\ head_dim' = cfg[1].head_dim
                /\ encoder_output_names' = load.file.enc_out
                /\ decoder_input_names' = load.file.dec_in
                /\ decoder_output_names' = load.file.dec_out
    /\ UNCHANGED <<model_type, calls, audio_len, max_len, decodeVars, callVars,
                   encoder_runs, decoder_runs, failure, histVars, runVars, present_kv>>

\* Transcriber::transcribe enters OnnxModel::run, which computes max_len;
\* through a null model pointer the call ends the process with a
\* segmentation fault
TranscribeCall(n) ==
    /\ phase \in {"Ready", "Done"}
    /\ calls < MaxCalls
    /\ calls' = calls + 1
    /\ phase' = IF model THEN "Encoding" ELSE "Crashed"
    /\ audio_len' = n
    /\ max_len' = token_budget(n)
    /\ encoder_runs' = 0
    /\ decoder_runs' = 0
    /\ tokenizer_calls' = 0
    /\ tokenizer_arg' = <<>>
    /\ tokens' = <<>>
    /\ text' = <<>>
    /\ failure' = IF model THEN "none" ELSE "SIGSEGV"
    /\ encoder_inputs' = <<>>
    /\ selected' = <<>>
    /\ update_flags' = <<>>
    /\ UNCHANGED <<type_str, model_type, pathVars, construct_error, tokenizer,
                   model, modelVars, decodeVars, present_kv>>

Transcribe(n) == TranscribeCall(n) /\ UNCHANGED histVars

\* std::terminate: an exception reaches the noexcept boundary of run()
Terminate(what) ==
    /\ phase' = "Terminated"
    /\ failure' = what

\* run(): encode(), last_hidden_state.at(0), and the start of decode()
EncodeRun(out) ==
    /\ phase = "Encoding"
    /\ encoder_inputs' = << encode_input(audio_len) >>
    /\ encoder_runs' = encoder_runs + 1
    /\ IF out.throws
       THEN /\ Terminate("encoder.Run")
            /\ UNCHANGED <<max_token_count, i, cur_tokens, result_tokens,
                           past_key_values, last_hidden_state>>
       ELSE IF Len(out.output) = 0
       THEN /\ Terminate("std::out_of_range")
            /\ UNCHANGED <<max_token_count, i, cur_tokens, result_tokens,
                           past_key_values, last_hidden_state>>
       ELSE /\ last_hidden_state' = out.output[1]
            /\ max_token_count' = MaxTokenCount(max_len)
            /\ past_key_values' = initialize_past_key_values(
                   decoder_input_names, num_kv_heads, head_dim)
            /\ result_tokens' = <<>>
            /\ cur_tokens' = << start_token >>
            /\ i' = 0
            /\ phase' = "Decoding"
            /\ UNCHANGED failure
    /\ UNCHANGED <<type_str, objectVars, modelVars, audio_len, max_len,
                   use_cache_branch, decoder_inputs, logits, callVars, decoder_runs,
                   selected, update_flags, present_kv>>

Encode(out) == EncodeRun(out) /\ UNCHANGED histVars

\* the tensors decode_next_token builds at the coming step
NextDecoderInputs ==
    decode_next_token_inputs(cur_tokens, last_hidden_state, past_key_values,
                             CacheBranch(i))

\* the process dies on a signal inside a call
Crash(sg) ==
    /\ phase' = "Crashed"
    /\ failure' = sg

\* one iteration of the loop of decode()
DecodeIteration(out) ==
    /\ phase = "Decoding"
    /\ LoopCond(i, max_token_count)
    /\ use_cache_branch' = CacheBranch(i)
    /\ decoder_inputs' = decode_next_token_inputs(
           cur_tokens, last_hidden_state, past_key_values, CacheBranch(i))
    /\ decoder_runs' = decoder_runs + 1
    /\ IF out.signal # "none"
       THEN /\ Crash(out.signal)
            /\ UNCHANGED <<logits, cur_tokens, result_tokens, past_key_values, i,
                           selected, update_flags>>
       ELSE IF out.throws
       THEN /\ Terminate("decoder.Run")
            /\ UNCHANGED <<logits, cur_tokens, result_tokens, past_key_values, i,
                           selected, update_flags>>
       ELSE IF Len(out.output) = 0
       THEN /\ Terminate("std::out_of_range")
            /\ UNCHANGED <<logits, cur_tokens, result_tokens, past_key_values, i,
                           selected, update_flags>>
       ELSE IF UnexpectedLogitsShape(out.output[1].shape)
       THEN /\ Terminate("Unexpected logits shape")
            /\ logits' = out.output[1]
            /\ UNCHANGED <<cur_tokens, result_tokens, past_key_values, i,
                           selected, update_flags>>
       ELSE LET next_token == get_next_token(out.output[1])
            IN  /\ logits' = out.output[1]
                /\ cur_tokens' = << next_token >>
                /\ selected' = Append(selected, next_token)
                /\ UNCHANGED failure
                /\ IF IsEndToken(next_token)
                   THEN /\ phase' = "Decoded"
                        /\ UNCHANGED <<result_tokens, past_key_values, i, update_flags>>
                   ELSE /\ result_tokens' = push_back(result_tokens, next_token)
                        /\ past_key_values' = update_kv_cache(
                               past_key_values, Tail(out.output), CacheBranch(i))
                        /\ update_flags' = Append(update_flags, CacheBranch(i))
                        /\ i' = i + 1
                        /\ UNCHANGED phase
    /\ UNCHANGED <<type_str, objectVars, modelVars, audio_len, max_len,
                   max_token_count, last_hidden_state, callVars, encoder_runs,
                   encoder_inputs, present_kv>>

DecodeStep(out) == DecodeIteration(out) /\ UNCHANGED histVars

\* the loop condition fails: decode() and run() return result_tokens
DecodeExit ==
    /\ phase = "Decoding"
    /\ ~LoopCond(i, max_token_count)
    /\ phase' = "Decoded"
    /\ UNCHANGED <<type_str, objectVars, modelVars, audio_len, max_len, decodeVars,
                   callVars, encoder_runs, decoder_runs, failure, histVars, runVars,
                   present_kv>>

\* run() hands result_tokens to transcribe() and the locals of decode() are
\* destroyed; then the empty test, the tokenizer, the return
Return ==
    /\ phase = "Decoded"
    /\ phase' = "Done"
    /\ tokens' = result_tokens
    /\ IF TokensEmpty(result_tokens)
       THEN /\ text' = <<>>
            /\ UNCHANGED <<tokenizer_calls, tokenizer_arg>>
       ELSE /\ tokenizer_calls' = tokenizer_calls + 1
            /\ tokenizer_arg' = result_tokens
            /\ text' = TokenizerDecode(result_tokens)
    /\ max_token_count' = 0
    /\ i' = 0
    /\ use_cache_branch' = FALSE
    /\ cur_tokens' = <<>>
    /\ result_tokens' = <<>>
    /\ past_key_values' = <<>>
    /\ last_hidden_state' = NoTensor
    /\ decoder_inputs' = <<>>
    /\ logits' = NoTensor
    /\ UNCHANGED <<type_str, objectVars, modelVars, audio_len, max_len,
                   encoder_runs, decoder_runs, failure, histVars, runVars, present_kv>>

Next ==
    \/ \E str \in TypeStrings : FromString(str)
    \/ \E t \in ModelTypes : FromType(t)
    \/ \E tp \in PathKinds, ep \in PathKinds, dp \in PathKinds, load \in Loads :
           Construct(tp, ep, dp, load)
    \/ \E n \in SampleCounts : Transcribe(n)
    \/ \E out \in EncoderRunOutcomes(encoder_output_names) : Encode(out)
    \/ \E out \in DecoderRunOutcomes(decoder_input_names, NextDecoderInputs,
                                      decoder_output_names, i, num_kv_heads, head_dim) :
           DecodeStep(out)
    \/ DecodeExit
    \/ Return

Spec == Init /\ [][Next]_vars

(***************************************************************************)
(* A deterministic engine: a run on inputs the engine has seen answers as  *)
(* it did before.  The audio of a call stands for the contents of its      *)
(* buffer, so later calls are made on the audio of the first.              *)
(***************************************************************************)
RepeatSampleCounts == { 0, 4000 }

\* the graphs whose decoder declares at most one cache output
NarrowLoads == { l \in Loads : Len(l.file.dec_out) <= 2 }

EncoderKey == [run |-> "encoder", audio |-> audio_len, inputs |-> <<>>]

DecoderKey ==
    [run |-> "decoder", audio |-> audio_len,
     inputs |-> decode_next_token_inputs(cur_tokens, last_hidden_state,
                                         past_key_values, CacheBranch(i))]

Answers(key, out) ==
    \A k \in 1..Len(memo) :
        (memo[k].key.run = key.run /\ memo[k].key.audio = key.audio
         /\ memo[k].key.inputs = key.inputs) => memo[k].out = out

DetTranscribe(n) ==
    /\ calls = 0 \/ n = audio_len
    /\ TranscribeCall(n)
    /\ prev_tokens' = tokens
    /\ UNCHANGED memo

DetEncode(out) ==
    /\ Answers(EncoderKey, out)
    /\ EncodeRun(out)
    /\ memo' = IF \E k \in 1..Len(memo) : memo[k].key = EncoderKey THEN memo
               ELSE Append(memo, [key |-> EncoderKey, out |-> out])
    /\ UNCHANGED prev_tokens

DetDecodeStep(out) ==
    /\ Answers(DecoderKey, out)
    /\ DecodeIteration(out)
    /\ memo' = IF \E k \in 1..Len(memo) : memo[k].key = DecoderKey THEN memo
               ELSE Append(memo, [key |-> DecoderKey, out |-> out])
    /\ UNCHANGED prev_tokens

DetNext ==
    \/ \E str \in TypeStrings : FromString(str)
    \/ \E t \in ModelTypes : FromType(t)
    \/ \E tp \in PathKinds, ep \in PathKinds, dp \in PathKinds, load \in NarrowLoads :
           Construct(tp, ep, dp, load)
    \/ \E n \in RepeatSampleCounts : DetTranscribe(n)
    \/ \E out \in EncoderRunOutcomes(encoder_output_names) : DetEncode(out)
    \/ \E out \in DecoderRunOutcomes(decoder_input_names, NextDecoderInputs,
                                      decoder_output_names, i, num_kv_heads, head_dim) :
           DetDecodeStep(out)
    \/ DecodeExit
    \/ Return

DetSpec == Init /\ [][DetNext]_vars

(***************************************************************************)
(* The token budget alone, for every sample count up to DenseSamples       *)
(***************************************************************************)
BudgetInit ==
    /\ phase = "Budget"
    /\ audio_len \in 0..DenseSamples
    /\ type_str = <<>>
    /\ model_type = "nullopt"
    /\ tokenizer_path = "missing"
    /\ encoder_path = "missing"
    /\ decoder_path = "missing"
    /\ construct_error = "none"
    /\ calls = 0
    /\ tokenizer = FALSE
    /\ model = FALSE
    /\ num_layers = 0
    /\ num_kv_heads = 0
    /\ head_dim = 0
    /\ encoder_output_names = <<>>
    /\ decoder_input_names = <<>>
    /\ decoder_output_names = <<>>
    /\ max_len = 0
    /\ max_token_count = 0
    /\ i = 0
    /\ use_cache_branch = FALSE
    /\ cur_tokens = <<>>
    /\ result_tokens = <<>>
    /\ past_key_values = <<>>
    /\ last_hidden_state = NoTensor
    /\ decoder_inputs = <<>>
    /\ logits = NoTensor
    /\ tokens = <<>>
    /\ text = <<>>
    /\ encoder_runs = 0
    /\ decoder_runs = 0
    /\ tokenizer_calls = 0
    /\ tokenizer_arg = <<>>
    /\ failure = "none"
    /\ prev_tokens = <<>>
    /\ memo = <<>>
    /\ encoder_inputs = <<>>
    /\ selected = <<>>
    /\ update_flags = <<>>
    /\ present_kv = <<>>

\* run() computes max_len, decode() clamps it
ComputeBudget ==
    /\ phase = "Budget"
    /\ phase' = "BudgetDone"
    /\ max_len' = token_budget(audio_len)
    /\ max_token_count' = MaxTokenCount(token_budget(audio_len))
    /\ UNCHANGED <<type_str, objectVars, modelVars, audio_len, i, use_cache_branch,
                   cur_tokens, result_tokens, past_key_values, last_hidden_state,
                   decoder_inputs, logits, callVars, encoder_runs, decoder_runs,
                   failure, histVars, runVars, present_kv>>

BudgetNext == ComputeBudget

BudgetSpec == BudgetInit /\ [][BudgetNext]_vars

(***************************************************************************)
(* Functions of the decoder called on their own                            *)
(***************************************************************************)
TranscriberUnset ==
    /\ type_str = <<>>
    /\ model_type = "nullopt"
    /\ tokenizer_path = "missing"
    /\ encoder_path = "missing"
    /\ decoder_path = "missing"
    /\ construct_error = "none"
    /\ tokenizer = FALSE
    /\ model = FALSE
    /\ calls = 0

GraphUnset ==
    /\ num_layers = 0
    /\ num_kv_heads = 0
    /\ head_dim = 0
    /\ encoder_output_names = <<>>
    /\ decoder_input_names = <<>>
    /\ decoder_output_names = <<>>

CallUnset ==
    /\ audio_len = 0
    /\ max_len = 0
    /\ tokens = <<>>
    /\ text = <<>>
    /\ encoder_runs = 0
    /\ decoder_runs = 0
    /\ tokenizer_calls = 0
    /\ tokenizer_arg = <<>>
    /\ failure = "none"
    /\ prev_tokens = <<>>
    /\ memo = <<>>
    /\ encoder_inputs = <<>>
    /\ selected = <<>>
    /\ update_flags = <<>>

LoopUnset ==
    /\ max_token_count = 0
    /\ i = 0
    /\ cur_tokens = <<>>
    /\ result_tokens = <<>>
    /\ last_hidden_state = NoTensor
    /\ decoder_inputs = <<>>

\* sequences of at most n elements of S
SeqsUpTo(S, n) == UNION { [1..m -> S] : m \in 0..n }

(***************************************************************************)
(* initialize_past_key_values over decoder input names of every kind       *)
(***************************************************************************)
MaxNames == 3

\* a name that lacks the last letter of the prefix
PastKeyValue == SubSeq(past_key_prefix, 1, Len(past_key_prefix) - 1)

NamePool == { InputIds, UseCacheBranch, PastKey(<<".","0">>),
              <<"x">> \o PastKey(<<".","1">>), PastKeyValue }

InitializeInit ==
    /\ phase = "Initialize"
    /\ decoder_input_names \in SeqsUpTo(NamePool, MaxNames)
    /\ \E cfg \in {Base, Tiny} :
           /\ num_layers = cfg.num_layers
           /\ num_kv_heads = cfg.num_kv_heads
           /\ head_dim = cfg.head_dim
    /\ encoder_output_names = <<>>
    /\ decoder_output_names = <<>>
    /\ TranscriberUnset
    /\ CallUnset
    /\ LoopUnset
    /\ use_cache_branch = FALSE
    /\ past_key_values = <<>>
    /\ logits = NoTensor
    /\ present_kv = <<>>

InitializePastKeyValues ==
    /\ phase = "Initialize"
    /\ phase' = "Initialized"
    /\ past_key_values' = initialize_past_key_values(
           decoder_input_names, num_kv_heads, head_dim)
    /\ UNCHANGED <<type_str, objectVars, modelVars, audio_len, max_len,
                   max_token_count, i, use_cache_branch, cur_tokens, result_tokens,
                   last_hidden_state, decoder_inputs, logits, callVars, encoder_runs,
                   decoder_runs, failure, histVars, runVars, present_kv>>

InitializeNext == InitializePastKeyValues

InitializeSpec == InitializeInit /\ [][InitializeNext]_vars

(***************************************************************************)
(* update_kv_cache over caches and new values of every length and shape    *)
(***************************************************************************)
MaxEntries == 2

\* cache entries left by an earlier decoder run, or never filled
\* new_values as update_kv_cache leaves it: an entry moved into the cache is
\* left an empty handle, every other entry is as it was
new_values_after(cache, new_values, flag) ==
    [k \in 1..Len(new_values) |->
        IF k <= Len(cache)
        THEN LET past_kv_empty == cache[k].shape[1] = 0
                 is_decoder_kv == new_values[k].shape[3] > 1
             IN  IF past_kv_empty \/ is_decoder_kv \/ ~flag
                 THEN NoTensor
                 ELSE new_values[k]
        ELSE new_values[k]]

CacheSeqs ==
    { [k \in 1..Len(d) |-> Tensor(<<d[k][1], 8, d[k][2], 36>>, <<>>,
                                  IF d[k][1] = 0 THEN NullBuf
                                  ELSE DecoderBuf(0, k + 1))] :
        d \in SeqsUpTo(PresentDims, MaxEntries) }

\* the cache outputs of the decoder run that follows
NewValueSeqs ==
    UNION { PresentSeqs(n, 1, 8, 36) : n \in 0..MaxEntries }

UpdateInit ==
    /\ phase = "Update"
    /\ past_key_values \in CacheSeqs
    /\ present_kv \in NewValueSeqs
    /\ use_cache_branch \in BOOLEAN
    /\ TranscriberUnset
    /\ GraphUnset
    /\ CallUnset
    /\ LoopUnset
    /\ logits = NoTensor

UpdateKvCache ==
    /\ phase = "Update"
    /\ phase' = "Updated"
    /\ past_key_values' = update_kv_cache(past_key_values, present_kv, use_cache_branch)
    /\ present_kv' = new_values_after(past_key_values, present_kv, use_cache_branch)
    /\ UNCHANGED <<type_str, objectVars, modelVars, audio_len, max_len,
                   max_token_count, i, use_cache_branch, cur_tokens, result_tokens,
                   last_hidden_state, decoder_inputs, logits, callVars, encoder_runs,
                   decoder_runs, failure, histVars, runVars>>

UpdateNext == UpdateKvCache

UpdateSpec == UpdateInit /\ [][UpdateNext]_vars

(***************************************************************************)
(* get_next_token over logits of every length up to VocabSize              *)
(***************************************************************************)
\* logit values: negative, zero, positive, with room for ties
GreedyValues == {-1, 0, 1, 2}

GreedyTensors ==
    { Tensor(<<1, 1, Len(d)>>, d, DecoderBuf(0, 1)) :
        d \in SeqsUpTo(GreedyValues, VocabSize) } \cup LogitsTensors(0)

GreedyInit ==
    /\ phase = "Greedy"
    /\ logits \in GreedyTensors
    /\ TranscriberUnset
    /\ GraphUnset
    /\ CallUnset
    /\ LoopUnset
    /\ use_cache_branch = FALSE
    /\ past_key_values = <<>>
    /\ present_kv = <<>>

GetNextToken ==
    /\ phase = "Greedy"
    /\ IF UnexpectedLogitsShape(logits.shape)
       THEN /\ phase' = "GreedyThrown"
            /\ failure' = "Unexpected logits shape"
            /\ UNCHANGED selected
       ELSE /\ phase' = "GreedyDone"
            /\ selected' = << get_next_token(logits) >>
            /\ UNCHANGED failure
    /\ UNCHANGED <<type_str, objectVars, modelVars, audio_len, max_len, decodeVars,
                   callVars, encoder_runs, decoder_runs, histVars, encoder_inputs,
                   update_flags, present_kv>>

GreedyNext == GetNextToken

GreedySpec == GreedyInit /\ [][GreedyNext]_vars

\* the steps inside one transcribe call: engine runs are blocking calls that
\* return, throw or end the process, the rest is straight-line code, so a
\* call in progress always takes its next step
InCall ==
    \/ \E out \in EncoderRunOutcomes(encoder_output_names) : Encode(out)
    \/ \E out \in DecoderRunOutcomes(decoder_input_names, NextDecoderInputs,
                                      decoder_output_names, i, num_kv_heads, head_dim) :
           DecodeStep(out)
    \/ DecodeExit
    \/ Return

\* the first transcribe call of a Transcriber, from its start to its end
FirstTranscribe(n) == calls = 0 /\ Transcribe(n)

LiveNext ==
    \/ \E str \in TypeStrings : FromString(str)
    \/ \E t \in ModelTypes : FromType(t)
    \/ \E tp \in PathKinds, ep \in PathKinds, dp \in PathKinds, load \in NarrowLoads :
           Construct(tp, ep, dp, load)
    \/ \E n \in SampleCounts : FirstTranscribe(n)
    \/ \E out \in EncoderRunOutcomes(encoder_output_names) : Encode(out)
    \/ \E out \in DecoderRunOutcomes(decoder_input_names, NextDecoderInputs,
                                      decoder_output_names, i, num_kv_heads, head_dim) :
           DecodeStep(out)
    \/ DecodeExit
    \/ Return

LiveSpec == Init /\ [][LiveNext]_vars /\ WF_vars(InCall)

(***************************************************************************)
(* Properties                                                              *)
(***************************************************************************)
\* the integer r with r - 1/2 <= 6 n / 16000 < r + 1/2
RoundedTokens(n) ==
    CHOOSE r \in 0..(n \div 2000 + 1) :
        16000 * (2 * r - 1) <= 12 * n /\ 12 * n < 16000 * (2 * r + 1)

\* max(1, round((n / 16000) * 6))
ClampedBudget(n) == IF RoundedTokens(n) >= 1 THEN RoundedTokens(n) ELSE 1

\* C1: every transcribe call returns a string, and a call in which a failure
\* occurred returns the empty string; no call ends the process.
C1_TranscribeIsTotal ==
    /\ phase \notin {"Terminated", "Crashed"}
    /\ (failure # "none" /\ phase = "Done") => text = <<>>

\* C2: the token sequence decode() holds, and the one run() returns, is no
\* longer than the token budget of the audio and never holds the end token 2.
C2_TokensWithinBudget ==
    /\ phase \in {"Decoding", "Decoded"} =>
           /\ Len(result_tokens) <= ClampedBudget(audio_len)
           /\ \A k \in 1..Len(result_tokens) : result_tokens[k] # 2
    /\ phase = "Done" =>
           /\ Len(tokens) <= ClampedBudget(audio_len)
           /\ \A k \in 1..Len(tokens) : tokens[k] # 2

\* a call that used its whole budget of three tokens
C2_Witness ==
    phase = "Done" /\ audio_len = 8000 /\ Len(tokens) = 3

\* C3: the number of decode iterations allowed for n samples is
\* max(1, round((n / 16000) * 6)): at least 1, 1 for n = 0, 6 for n = 16000.
C3_BudgetIsClampedRound ==
    phase = "BudgetDone" =>
        /\ max_token_count = ClampedBudget(audio_len)
        /\ max_token_count >= 1
        /\ audio_len = 0 => max_token_count = 1
        /\ audio_len = 16000 => max_token_count = 6

\* one second of audio: six iterations
C3_Witness ==
    phase = "BudgetDone" /\ audio_len = 16000 /\ max_token_count = 6

\* sample counts the budget of the current one is compared with: its two
\* neighbours and every multiple of 250
MonotoneProbes(n) ==
    ({n - 1, n + 1} \cup {250 * k : k \in 0..(DenseSamples \div 250)}) \cap 0..DenseSamples

\* C4: the token budget never decreases when the sample count grows.
C4_BudgetMonotone ==
    phase = "BudgetDone" =>
        \A m \in MonotoneProbes(audio_len) :
            /\ m <= audio_len => MaxTokenCount(token_budget(m)) <= max_token_count
            /\ audio_len <= m => max_token_count <= MaxTokenCount(token_budget(m))

\* a sample count whose budget exceeds that of the count just below it
C4_Witness ==
    /\ phase = "BudgetDone"
    /\ audio_len = 4000
    /\ max_token_count = 2
    /\ MaxTokenCount(token_budget(3999)) = 1

\* C5: every transcription makes at least one and at most token-budget
\* decoder runs and then reaches Done, whatever the decoder does: a call in
\* its decode loop leaves it only on the way to Done, and does reach Done.
\* A decoder run that throws, returns no output or ill-shaped logits, or
\* is handed more tensors than declared names, refutes it: the process
\* ends inside the loop.
C5_DecodeLoopTerminates ==
    /\ [](phase \in {"Decoding", "Decoded", "Done"} =>
             decoder_runs <= ClampedBudget(audio_len))
    /\ [](phase \in {"Decoded", "Done"} => decoder_runs >= 1)
    /\ [][phase = "Decoding" => phase' \in {"Decoding", "Decoded"}]_vars
    /\ (phase = "Decoding") ~> (phase = "Done")

\* C6: a call whose token sequence is empty returns "" and never calls the
\* tokenizer; a call whose token sequence is not empty calls it exactly
\* once, with that sequence, and returns its text.
C6_TokenizerShortCircuit ==
    /\ phase \in {"Encoding", "Decoding", "Decoded", "Terminated"} => tokenizer_calls = 0
    /\ phase = "Done" =>
           IF Len(tokens) = 0
           THEN text = <<>> /\ tokenizer_calls = 0
           ELSE /\ tokenizer_calls = 1
                /\ tokenizer_arg = tokens
                /\ text = TokenizerDecode(tokens)

\* the first decode step selected the end token
C6_Witness ==
    /\ phase = "Done"
    /\ decoder_runs = 1
    /\ audio_len = 8000
    /\ tokens = <<>>
    /\ tokenizer_calls = 0

\* C7: at the first decode step of every call the result is empty, the
\* token fed is the start token 1 and every cache entry is empty, whatever
\* the earlier calls did; with a deterministic engine a later call on the
\* same audio returns the tokens the earlier call returned.
C7_NoStateAcrossCalls ==
    /\ (phase = "Decoding" /\ i = 0) =>
           /\ result_tokens = <<>>
           /\ cur_tokens = <<1>>
           /\ \A k \in 1..Len(past_key_values) : past_key_values[k].shape[1] = 0
    /\ (phase \in {"Decoding", "Decoded", "Terminated"} /\ decoder_runs = 1) =>
           /\ decoder_inputs[1].data = <<1>>
           /\ \A k \in 3..(Len(decoder_inputs) - 1) : decoder_inputs[k].shape[1] = 0
    /\ (phase = "Done" /\ calls >= 2) => tokens = prev_tokens

\* the first decode step of a second call, after a call that returned two
\* tokens and left a cache of two entries
C7_Witness ==
    /\ calls = 2
    /\ phase = "Decoding"
    /\ i = 0
    /\ Len(prev_tokens) = 2
    /\ Len(past_key_values) = 2

\* s is word w written with each letter in either case
IsCasingOf(s, w) ==
    /\ Len(s) = Len(w)
    /\ \A k \in 1..Len(w) : s[k] = w[k] \/ s[k] = toupper(w[k])

\* C8: from_string yields Base for every casing of "base", Tiny for every
\* casing of "tiny" and nothing for any other string; a Transcriber built
\* with Base uses (8, 8, 52), one built with Tiny uses (6, 8, 36).
C8_ModelSelection ==
    /\ phase = "Selected" =>
           model_type = (IF IsCasingOf(type_str, <<"b","a","s","e">>) THEN "Base"
                         ELSE IF IsCasingOf(type_str, <<"t","i","n","y">>) THEN "Tiny"
                         ELSE "nullopt")
    /\ model =>
           /\ model_type = "Base" =>
                  <<num_layers, num_kv_heads, head_dim>> = <<8, 8, 52>>
           /\ model_type = "Tiny" =>
                  <<num_layers, num_kv_heads, head_dim>> = <<6, 8, 36>>
           /\ model_type \in {"Base", "Tiny"}

\* "TINY" selects the Tiny type
C8_Witness ==
    /\ phase = "Selected"
    /\ type_str = <<"T","I","N","Y">>
    /\ model_type = "Tiny"

\* C9: construction ends in an error, with no tokenizer and no model kept,
\* whenever one of the three paths is not a regular file; it succeeds only
\* with three regular files, and never keeps a tokenizer without a model.
\* A ModelType outside the two enumerators refutes it: no case of the
\* switch matches, the model paths are never tested and the constructor
\* returns with the tokenizer loaded and no model.
C9_ConstructionAllOrNothing ==
    /\ (phase \notin {"Start", "Selected", "Typed"} /\
        ~(tokenizer_path = "file" /\ encoder_path = "file" /\ decoder_path = "file")) =>
           /\ phase = "ConstructFailed"
           /\ construct_error # "none"
           /\ ~tokenizer /\ ~model
    /\ (tokenizer \/ model) =>
           /\ tokenizer /\ model
           /\ construct_error = "none"
           /\ tokenizer_path = "file" /\ encoder_path = "file" /\ decoder_path = "file"
    /\ phase \in {"Ready", "Encoding", "Decoding", "Decoded", "Done", "Terminated"} =>
           tokenizer /\ model

\* the declared decoder inputs whose name holds "past_key_values"
CacheInputs == {k \in 1..Len(decoder_input_names) :
                   find(decoder_input_names[k], past_key_prefix)}

\* C10 as stated: the cache holds exactly num_layers entries while decoding.
C10_CacheCountIsNumLayers ==
    phase \in {"Decoding", "Decoded"} => Len(past_key_values) = num_layers

\* C10 as amended: while decoding, the cache holds exactly one entry per
\* declared decoder input whose name holds "past_key_values": after the
\* initialization, at every decoder run and after every update.
C10_CacheCountIsCacheInputs ==
    /\ phase \in {"Decoding", "Decoded"} =>
           Len(past_key_values) = Cardinality(CacheInputs)
    /\ (phase \in {"Decoding", "Decoded"} /\ decoder_runs >= 1) =>
           Len(decoder_inputs) = Cardinality(CacheInputs) + 3

\* two cache inputs and one cache output: the update has run twice
C10_Witness ==
    /\ phase = "Decoding"
    /\ i = 2
    /\ Len(past_key_values) = 2
    /\ Len(decoder_output_names) = 2
    /\ num_layers = 6

\* C11: initialize_past_key_values returns one entry for each declared
\* decoder input whose name contains "past_key_values", none for any other
\* name, and every entry has shape [0, num_kv_heads, 1, head_dim].
C11_InitialCacheMatchesNames ==
    phase = "Initialized" =>
        /\ Len(past_key_values) = Cardinality(CacheInputs)
        /\ \A k \in 1..Len(past_key_values) :
               /\ past_key_values[k].shape = <<0, num_kv_heads, 1, head_dim>>
               /\ past_key_values[k].shape[1] = 0

\* the prefix inside a name, a name one letter short of it, the prefix at
\* the start of a name: two entries
C11_Witness ==
    /\ phase = "Initialized"
    /\ decoder_input_names =
           << <<"x">> \o PastKey(<<".","1">>), PastKeyValue, PastKey(<<".","0">>) >>
    /\ Len(past_key_values) = 2
    /\ num_kv_heads = 8
    /\ head_dim = 36

\* the positions update_kv_cache visits: those both vectors have
Paired == 1..Min(Len(past_key_values), Len(present_kv))

\* C12: update_kv_cache replaces entry k by new value k exactly when the
\* entry's leading dimension is 0, or the new value's third axis is greater
\* than 1, or use_cache_branch is false; for each of the eight combinations
\* the entry is replaced, except (non-empty, third axis <= 1, flag true),
\* where the old entry stays as it was.
C12_ReplacementTable ==
    [][(phase = "Update" /\ phase' = "Updated") =>
          \A k \in Paired :
              LET cache_empty == past_key_values[k].shape[1] = 0
                  multi_token_output == present_kv[k].shape[3] > 1
                  replaced == past_key_values'[k] = present_kv[k]
                  retained == past_key_values'[k] = past_key_values[k]
              IN  /\ replaced <=> (cache_empty \/ multi_token_output \/ ~use_cache_branch)
                  /\ retained <=> (~cache_empty /\ ~multi_token_output /\ use_cache_branch)
                  /\ <<cache_empty, multi_token_output, use_cache_branch>> \in
                         { <<TRUE, TRUE, TRUE>>, <<TRUE, TRUE, FALSE>>,
                           <<TRUE, FALSE, TRUE>>, <<TRUE, FALSE, FALSE>>,
                           <<FALSE, TRUE, TRUE>>, <<FALSE, TRUE, FALSE>>,
                           <<FALSE, FALSE, FALSE>> } => replaced
                  /\ <<cache_empty, multi_token_output, use_cache_branch>> =
                         <<FALSE, FALSE, TRUE>> => retained
      ]_vars

\* flag true: a filled entry met by a one-token value is kept, a filled
\* entry met by a two-token value is replaced and the value is left an
\* empty handle
C12_Witness ==
    /\ phase = "Updated"
    /\ use_cache_branch
    /\ Len(past_key_values) = 2
    /\ Len(present_kv) = 2
    /\ past_key_values[1].buf = DecoderBuf(0, 2)
    /\ present_kv[1].shape[3] = 1
    /\ past_key_values[2].buf = DecoderBuf(1, 3)
    /\ past_key_values[2].shape[3] = 2
    /\ present_kv[2] = NoTensor

\* C13: with vectors of different lengths update_kv_cache raises nothing,
\* applies the policy to the paired positions only, leaves the entries
\* beyond them as they were, and keeps the number of entries.
C13_LengthMismatch ==
    [][(phase = "Update" /\ phase' = "Updated") =>
          /\ failure' = "none"
          /\ Len(past_key_values') = Len(past_key_values)
          /\ \A k \in 1..Len(past_key_values) :
                 IF k \in Paired
                 THEN past_key_values'[k] =
                          (IF \/ past_key_values[k].shape[1] = 0
                              \/ present_kv[k].shape[3] > 1
                              \/ ~use_cache_branch
                           THEN present_kv[k]
                           ELSE past_key_values[k])
                 ELSE past_key_values'[k] = past_key_values[k]
      ]_vars

\* two entries, one new value, flag false: the first is replaced, the
\* second is left alone
C13_Witness ==
    /\ phase = "Updated"
    /\ ~use_cache_branch
    /\ Len(past_key_values) = 2
    /\ Len(present_kv) = 1
    /\ past_key_values[1].buf = DecoderBuf(1, 2)
    /\ present_kv = << NoTensor >>
    /\ past_key_values[2].buf = DecoderBuf(0, 3)

\* C14: no tensor handed to the decoder shares its buffer with the hidden
\* state or with a cache entry that holds data.
C14_ClonesOwnBuffers ==
    (phase \in {"Decoding", "Decoded"} /\ decoder_runs >= 1) =>
        \A d \in 1..Len(decoder_inputs) :
            /\ decoder_inputs[d].buf # last_hidden_state.buf
            /\ \A k \in 1..Len(past_key_values) :
                   past_key_values[k].buf # NullBuf =>
                       decoder_inputs[d].buf # past_key_values[k].buf

\* a decoder run of the current step selected the end token 2
SelectsEndToken ==
    /\ phase = "Decoding"
    /\ Len(selected') = Len(selected) + 1
    /\ selected'[Len(selected')] = 2

\* C15: the step that selects the end token ends the loop at once: the
\* token is not appended, the cache is not updated with the outputs of that
\* step, no decoder run follows in the call, and at step 0 the sequence
\* returned is empty.
C15_EndTokenStopsAtOnce ==
    /\ [][SelectsEndToken =>
             /\ phase' = "Decoded"
             /\ result_tokens' = result_tokens
             /\ past_key_values' = past_key_values
             /\ update_flags' = update_flags
             /\ i' = i]_vars
    /\ [][phase = "Decoded" =>
             /\ phase' = "Done"
             /\ decoder_runs' = decoder_runs
             /\ tokens' = result_tokens]_vars
    /\ [](\A k \in 1..(Len(selected) - 1) : selected[k] # 2)
    /\ []((phase \in {"Decoded", "Done"} /\ selected = <<2>>) =>
              (result_tokens = <<>> /\ tokens = <<>> /\ decoder_runs = 1))

\* the second step selected the end token: one token returned after two
\* decoder runs, with a budget of three
C15_Witness ==
    /\ phase = "Done"
    /\ audio_len = 8000
    /\ Len(selected) = 2
    /\ selected[2] = 2
    /\ tokens = << selected[1] >>
    /\ decoder_runs = 2
    /\ Len(update_flags) = 1

\* the smallest position of v that holds the largest value of v
ArgMaxFirst(v) ==
    CHOOSE k \in 1..Len(v) :
        /\ \A j \in 1..Len(v) : v[j] <= v[k]
        /\ \A j \in 1..(k - 1) : v[j] < v[k]

\* the steps of the current call that selected the end token 2
EndSteps == {k \in 1..Len(selected) : selected[k] = 2}

\* the number of tokens the call is to return: the budget, or the number
\* of steps before the first one that selected the end token
ReturnedCount ==
    IF EndSteps = {} THEN ClampedBudget(audio_len)
    ELSE Min(ClampedBudget(audio_len),
             (CHOOSE k \in EndSteps : \A j \in EndSteps : k <= j) - 1)

\* C16: the sequence returned is the tokens the steps selected, in order,
\* up to the budget or the first end token, with nothing prepended; each
\* is the greedy choice on the logits of its step; without an end token
\* exactly token-budget tokens are returned.
C16_ResultIsSelectedPrefix ==
    /\ phase = "Decoding" => result_tokens = selected
    /\ (phase \in {"Decoding", "Decoded"} /\ selected # <<>>) =>
           selected[Len(selected)] = ArgMaxFirst(logits.data) - 1
    /\ phase = "Decoded" => result_tokens = SubSeq(selected, 1, ReturnedCount)
    /\ phase = "Done" =>
           /\ tokens = SubSeq(selected, 1, ReturnedCount)
           /\ Len(tokens) = ReturnedCount
           /\ EndSteps = {} => Len(tokens) = ClampedBudget(audio_len)

\* three steps, no end token, a budget of three: the three tokens selected
\* are returned in the order of the steps
C16_Witness ==
    /\ phase = "Done"
    /\ audio_len = 8000
    /\ selected = <<1, 0, 1>>
    /\ tokens = <<1, 0, 1>>

\* C17: the token input of every decoder run has shape [1, 1]: it holds the
\* start token 1 at the first run of a call and, at every later run, the
\* token the run before it selected.
C17_SingleTokenInput ==
    /\ phase = "Decoding" => Len(cur_tokens) = 1
    /\ (phase \in {"Decoding", "Decoded", "Terminated"} /\ decoder_runs >= 1) =>
           /\ decoder_inputs[1].shape = <<1, 1>>
           /\ Len(decoder_inputs[1].data) = 1
           /\ decoder_inputs[1].data[1] =
                  (IF decoder_runs = 1 THEN 1 ELSE selected[decoder_runs - 1])

\* the second run of a call was fed token 0, which the first run selected
C17_Witness ==
    /\ phase = "Decoding"
    /\ decoder_runs = 2
    /\ selected = <<0, 1>>
    /\ decoder_inputs[1].data = <<0>>
    /\ cur_tokens = <<1>>

\* C18: the first decoder run of a call, and no other, is made with
\* use_cache_branch false; the flag of a run is also the flag of the
\* update_kv_cache call that follows it.
C18_CacheBranchAfterFirstRun ==
    /\ (phase \in {"Decoding", "Decoded", "Terminated"} /\ decoder_runs >= 1) =>
           /\ use_cache_branch = (decoder_runs > 1)
           /\ decoder_inputs[Len(decoder_inputs)].shape = <<1>>
           /\ decoder_inputs[Len(decoder_inputs)].data = << decoder_runs > 1 >>
    /\ phase \in {"Decoding", "Decoded", "Terminated", "Done"} =>
           /\ \A k \in 1..Len(update_flags) : update_flags[k] = (k > 1)
           /\ Len(update_flags) <= decoder_runs
           /\ decoder_runs <= Len(update_flags) + 1

\* two runs, each followed by an update: false, then true
C18_Witness ==
    /\ phase = "Decoding"
    /\ decoder_runs = 2
    /\ use_cache_branch
    /\ update_flags = <<FALSE, TRUE>>
    /\ decoder_inputs[Len(decoder_inputs)].data = <<TRUE>>

\* C19: a call runs the encoder once, on all audio_len samples, before any
\* decoder run and not again; every decoder run is handed the first output
\* of that encoder run as its hidden state.
C19_EncodeOnceThenDecode ==
    /\ phase = "Encoding" => (encoder_runs = 0 /\ decoder_runs = 0)
    /\ phase \in {"Decoding", "Decoded", "Done", "Terminated"} =>
           /\ encoder_runs = 1
           /\ Len(encoder_inputs) = 1
           /\ encoder_inputs[1].shape = <<1, audio_len>>
           /\ encoder_inputs[1].buf = AudioBuf
    /\ phase \in {"Decoding", "Decoded"} => last_hidden_state.buf = EncoderBuf(1)
    /\ (phase \in {"Decoding", "Decoded", "Terminated"} /\ decoder_runs >= 1) =>
           /\ decoder_inputs[2].buf = EncoderBuf(1)
           /\ decoder_inputs[2].shape = <<1, 1, 1>>

\* the second decoder run of a call on 8000 samples: one encoder run, on
\* 8000 samples
C19_Witness ==
    /\ phase = "Decoding"
    /\ audio_len = 8000
    /\ encoder_runs = 1
    /\ decoder_runs = 2
    /\ encoder_inputs[1].shape = <<1, 8000>>
    /\ decoder_inputs[2].buf = EncoderBuf(1)

\* C20: on logits of shape [1,1,V], V >= 1, get_next_token returns an index
\* whose logit no other logit exceeds, and every smaller index holds a
\* strictly smaller logit.
C20_GreedyIsFirstMaximum ==
    (phase = "GreedyDone" /\ logits.shape[3] >= 1) =>
        LET V == logits.shape[3]
            next_token == selected[1]
        IN  /\ next_token \in 0..(V - 1)
            /\ \A j \in 1..V : logits.data[j] <= logits.data[next_token + 1]
            /\ \A j \in 1..next_token : logits.data[j] < logits.data[next_token + 1]

\* the maximum 2 at indices 1 and 2: index 1 is returned
C20_Witness ==
    /\ phase = "GreedyDone"
    /\ logits.data = <<0, 2, 2>>
    /\ selected = <<1>>

\* the logits of the latest decoder run have three dimensions, the first
\* two equal to 1
LogitsWellShaped ==
    /\ Len(logits.shape) = 3
    /\ logits.shape[1] = 1
    /\ logits.shape[2] = 1

\* C21: a decoder run that returns logits not of shape [1,1,V] raises
\* "Unexpected logits shape" and selects no token: nothing of that step is
\* appended, the token fed and the cache stay as they were, and no step
\* follows in that call; a token is only ever selected from logits of shape
\* [1,1,V].  A step hands the logits of its run to get_next_token exactly
\* when it changes logits.
C21_ShapeErrorStopsDecoding ==
    /\ []((phase \in {"Decoding", "Decoded"} /\ decoder_runs >= 1) =>
              (LogitsWellShaped /\ Len(selected) = decoder_runs))
    /\ []((phase = "Terminated" /\ failure = "Unexpected logits shape") =>
              /\ ~LogitsWellShaped
              /\ Len(selected) = decoder_runs - 1
              /\ result_tokens = selected
              /\ Len(update_flags) = decoder_runs - 1)
    /\ [][(phase = "Decoding" /\ logits' # logits /\
            ~(Len(logits'.shape) = 3 /\ logits'.shape[1] = 1 /\ logits'.shape[2] = 1)) =>
              /\ failure' = "Unexpected logits shape"
              /\ phase' = "Terminated"
              /\ selected' = selected
              /\ result_tokens' = result_tokens
              /\ cur_tokens' = cur_tokens
              /\ past_key_values' = past_key_values
              /\ update_flags' = update_flags]_vars
    /\ [][phase # "Terminated"]_vars

\* the second decoder run of a call returned logits of shape [1,2,V]: the
\* one token of the first step is all the call has
C21_Witness ==
    /\ phase = "Terminated"
    /\ failure = "Unexpected logits shape"
    /\ logits.shape = <<1, 2, VocabSize>>
    /\ decoder_runs = 2
    /\ Len(result_tokens) = 1

\* what a tensor handed to the decoder holds, told by the buffer under it
SuppliedFor(tensor) ==
    IF tensor.buf = CurTokensBuf THEN "input_ids"
    ELSE IF tensor.buf = FlagBuf THEN "use_cache_branch"
    ELSE IF tensor.buf = EncoderBuf(1) THEN "encoder_hidden_states"
    ELSE "past_key_values"

\* what a declared decoder input is to be given
DeclaredAs(name) ==
    IF name = InputIds THEN "input_ids"
    ELSE IF name = UseCacheBranch THEN "use_cache_branch"
    ELSE IF name = EncoderHiddenStates THEN "encoder_hidden_states"
    ELSE IF find(name, past_key_prefix) THEN "past_key_values"
    ELSE "other"

\* C22: every decoder run is handed as many tensors as the decoder declares
\* inputs, and the k-th tensor is the one the k-th declared name asks for.
C22_InputsMatchDeclaredNames ==
    (phase \in {"Decoding", "Decoded", "Terminated", "Crashed"} /\ decoder_runs >= 1) =>
        /\ Len(decoder_inputs) = Len(decoder_input_names)
        /\ \A k \in 1..Len(decoder_inputs) :
               SuppliedFor(decoder_inputs[k]) = DeclaredAs(decoder_input_names[k])

====
